---- MODULE Spec2Model ----
(***************************************************************************)
(* MyVec<T> (src/src/lib.rs): a growable array over the raw allocator.     *)
(* The model keeps the three fields of the struct, the allocator's heap    *)
(* as seen in units of T, and what the last operation returned.            *)
(* usize is W bits wide; isize::MAX is 2^(W-1) - 1.                        *)
(***************************************************************************)
EXTENDS Integers, Sequences, FiniteSets, TLC

\* ------------------------------------------------------------------ bounds
W == 7
MaxPush == 9

usizeModulus == 2 ^ W
isizeMax == 2 ^ (W - 1) - 1

\* ----------------------------------------------------- the code's constants
FirstCapacity == 4
Uninit == 0

\* element values (A(1), A(2) of the tests); Uninit marks raw memory
Values == {1, 2}
\* addresses the allocator can hand out; "dangling" is NonNull::dangling()
Addrs == {"a1", "a2"}
Null == "null"
Dangling == "dangling"

\* element types T as (size_of, align_of): align is a power of two and size
\* is a multiple of align, as the language guarantees
Types ==
    { [size |-> 0, align |-> 1], [size |-> 1, align |-> 1],
      [size |-> 6, align |-> 2], [size |-> 8, align |-> 8],
      [size |-> 16, align |-> 8] }

VARIABLES
    sizeT, alignT,      \* size_of::<T>(), align_of::<T>()
    overflowChecks,     \* debug build: an overflowing `*` and a debug_assert! panic
    grantsOversize,     \* allocator: does it serve requests above isize::MAX
    pointer, length, capacity,   \* the fields of MyVec
    heap,               \* address -> block
    status,             \* "live" or "dropped"
    ub,                 \* undefined behaviour has been executed
    outcome,            \* what the last operation did or returned
    lastCall,           \* the allocator call the last operation made
    pushed,             \* history: values of the successful pushes
    dropLog             \* events of Drop::drop, in order

vars == <<sizeT, alignT, overflowChecks, grantsOversize, pointer, length,
          capacity, heap, status, ub, outcome, lastCall, pushed, dropLog>>

typeVars == <<sizeT, alignT, overflowChecks, grantsOversize>>

\* ------------------------------------------------------------- the allocator
NoBlock == [live |-> FALSE, size |-> 0, align |-> 0, data |-> <<>>]

NoCall == [fn |-> "none", ptr |-> Null, size |-> 0, align |-> 0, newSize |-> 0]

Call(fn, ptr, size, align, newSize) ==
    [fn |-> fn, ptr |-> ptr, size |-> size, align |-> align, newSize |-> newSize]

IsLive(h, p) == p \in Addrs /\ h[p].live

\* a fresh block of `size` bytes holds size / size_of(T) raw slots
RawData(n) == [i \in 1..n |-> Uninit]

SlotsOf(size) == IF sizeT = 0 THEN 0 ELSE size \div sizeT

Serves(size) == size <= isizeMax \/ grantsOversize

\* where a new block is placed: addresses are interchangeable, so one free
\* address stands for all of them
Placement(h) ==
    IF \E x \in Addrs : ~h[x].live
    THEN {CHOOSE x \in Addrs : ~h[x].live}
    ELSE {}

\* alloc(layout): null, or a free address with raw contents; a zero-sized
\* request is outside the allocator's contract
AllocOutcomes(h, size, align) ==
    {[ret |-> Null, heap |-> h, ub |-> size = 0]}
    \cup
    { [ret |-> a,
       heap |-> [h EXCEPT ![a] = [live |-> TRUE, size |-> size, align |-> align,
                                  data |-> RawData(SlotsOf(size))]],
       ub |-> size = 0] : a \in {x \in Placement(h) : Serves(size)} }

\* the contents realloc preserves: the common prefix; the rest is raw
Resized(data, n) == [i \in 1..n |-> IF i <= Len(data) THEN data[i] ELSE Uninit]

\* realloc(ptr, layout, new_size): null with the old block untouched, the same
\* address, or another address with the old block released. A call outside
\* the allocator's contract (a pointer it did not hand out, a layout that is
\* not the block's, new_size 0) is undefined: it may also release the block
\* and return null.
ReallocOutcomes(h, ptr, size, align, newSize) ==
    LET inContract == /\ IsLive(h, ptr)
                      /\ h[ptr].size = size /\ h[ptr].align = align
                      /\ newSize > 0
        old == IF IsLive(h, ptr) THEN h[ptr].data ELSE <<>>
        blk == [live |-> TRUE, size |-> newSize, align |-> align,
                data |-> Resized(old, SlotsOf(newSize))]
        released == IF ptr \in Addrs THEN [h EXCEPT ![ptr] = NoBlock] ELSE h
    IN  {[ret |-> Null, heap |-> h, ub |-> ~inContract]}
        \cup
        (IF inContract THEN {}
         ELSE {[ret |-> Null, heap |-> released, ub |-> TRUE]})
        \cup
        { [ret |-> a, heap |-> [released EXCEPT ![a] = blk], ub |-> ~inContract] :
            a \in {x \in {ptr} \cup Placement(h) : x \in Addrs /\ Serves(newSize)} }

\* dealloc(ptr, layout): releases the block; undefined unless ptr is a live
\* block of exactly this layout
DeallocOutcome(h, ptr, size, align) ==
    IF IsLive(h, ptr) /\ h[ptr].size = size /\ h[ptr].align = align
    THEN [heap |-> [h EXCEPT ![ptr] = NoBlock], ub |-> FALSE]
    ELSE [heap |-> IF ptr \in Addrs THEN [h EXCEPT ![ptr] = NoBlock] ELSE h,
          ub |-> TRUE]

\* is slot `index` of the block at p inside that block
InBlock(h, p, index) == IsLive(h, p) /\ index + 1 <= Len(h[p].data)

\* p.add(index).write(v): lands in the block, or is undefined
WriteSlot(h, p, index, v) ==
    IF InBlock(h, p, index)
    THEN [heap |-> [h EXCEPT ![p].data[index + 1] = v], ub |-> FALSE]
    ELSE [heap |-> h, ub |-> TRUE]

\* *p.add(index): the slot's value; raw or foreign memory reads as Uninit
ReadSlot(h, p, index) == IF InBlock(h, p, index) THEN h[p].data[index + 1] ELSE Uninit

\* ------------------------------------------------------- checked arithmetic
Overflows(n) == n >= usizeModulus

\* a plain `*` on usize: panics under overflow checks, wraps without them
MulPanics(a, b) == overflowChecks /\ Overflows(a * b)
MulValue(a, b) == (a * b) % usizeModulus

\* Layout::array::<T>(n): Err when n elements exceed isize::MAX (rounded to align)
LayoutArrayOk(n) == sizeT = 0 \/ n <= ((isizeMax + 1) - alignT) \div sizeT


\* -------------------------------------------------------------- the results
None == [some |-> FALSE, value |-> Uninit]
Some(v) == [some |-> TRUE, value |-> v]

NoSlot == [at |-> Null, index |-> 0, used |-> FALSE]
Slot(p, index) == [at |-> p, index |-> index, used |-> TRUE]

\* outcome: op, result ("ok", "fatal", "Some", "None"), the panic message,
\* the index and value of a get, and the slot the operation touched
Outcome(op, result, msg, index, value, slot) ==
    [op |-> op, result |-> result, msg |-> msg, index |-> index,
     value |-> value, slot |-> slot]

\* ------------------------------------------------------------ MyVec::new
Fresh ==
    /\ pointer = Dangling
    /\ length = 0
    /\ capacity = 0
    /\ heap = [a \in Addrs |-> NoBlock]
    /\ status = "live"
    /\ ub = FALSE
    /\ outcome = Outcome("new", "ok", "", 0, Uninit, NoSlot)
    /\ lastCall = NoCall
    /\ pushed = <<>>
    /\ dropLog = <<>>

\* --------------------------------------------- MyVec::len, MyVec::capacity
vecLen == length

vecCapacity == capacity

\* ----------------------------------------------------------- MyVec::push
\* mutant: the size check is missing
IsZeroSizedNever(sz) == FALSE

IsZeroSized(sz) == sz = 0

HasSpare(len, cap) == len < cap

\* mutant: the length is not advanced
NextLengthSame(len) == len

NextLength(len) == len + 1

\* mutant: growth by a fixed step instead of doubling
NewCapacityPlusFour(cap) == cap + 4

NewCapacity(cap) == cap * 2

\* mutant: the padding the comment at the call considers
OldSizePadded(size, align) == size + (align - (size % align))

\* size.checked_add(size % align)
OldSizeAdjust(size, align) == size + (size % align)

\* mutant: length and capacity stored before the null check
GrowFieldsEager(ret, newCap) ==
    <<IF ret = Null THEN pointer ELSE ret, NextLength(length), newCap>>

\* the fields a growth push stores, given what realloc returned
GrowFields(ret, newCap) ==
    IF ret = Null THEN <<pointer, length, capacity>>
    ELSE <<ret, NextLength(length), newCap>>

\* a panic: the fields keep their values
PushFatal(msg, call, h, u) ==
    /\ outcome' = Outcome("push", "fatal", msg, 0, Uninit, NoSlot)
    /\ lastCall' = call
    /\ heap' = h
    /\ ub' = (ub \/ u)
    /\ UNCHANGED <<pointer, length, capacity, status, pushed, dropLog>>
    /\ UNCHANGED typeVars

PushDone(p, len, cap, h, u, call, element, index) ==
    /\ pointer' = p
    /\ length' = len
    /\ capacity' = cap
    /\ heap' = h
    /\ ub' = (ub \/ u)
    /\ outcome' = Outcome("push", "ok", "", 0, Uninit, Slot(p, index))
    /\ lastCall' = call
    /\ pushed' = Append(pushed, element)
    /\ UNCHANGED <<status, dropLog>>
    /\ UNCHANGED typeVars

\* capacity == 0: allocate four slots and write slot 0
PushFirst(element) ==
    IF ~LayoutArrayOk(FirstCapacity)
    THEN PushFatal("Couldn't allocate", NoCall, heap, FALSE)
    ELSE LET size == FirstCapacity * sizeT
             call == Call("alloc", Null, size, alignT, 0)
         IN  \E r \in AllocOutcomes(heap, size, alignT) :
                IF r.ret = Null
                THEN PushFatal("Couldn't allocate.", call, r.heap, r.ub)
                ELSE LET w == WriteSlot(r.heap, r.ret, 0, element)
                     IN  PushDone(r.ret, 1, FirstCapacity, w.heap,
                                  r.ub \/ w.ub, call, element, 0)

\* length < capacity: write slot `length` in place
PushSpare(element) ==
    LET offset == length * sizeT
    IN  IF Overflows(offset)
        THEN PushFatal("Can't reach memory location", NoCall, heap, FALSE)
        ELSE IF ~(offset < isizeMax)
        THEN PushFatal("Wrapped isize", NoCall, heap, FALSE)
        ELSE LET w == WriteSlot(heap, pointer, length, element)
             IN  PushDone(pointer, NextLength(length), capacity, w.heap, w.ub,
                          NoCall, element, length)

\* length == capacity: realloc to twice the capacity, write slot `length`
PushGrow(element) ==
    LET size0 == MulValue(sizeT, capacity)
        size == OldSizeAdjust(size0, alignT)
        new_capacity == NewCapacity(capacity)
        new_size_in_bytes == MulValue(sizeT, new_capacity)
        call == Call("realloc", pointer, size, alignT, new_size_in_bytes)
    IN  IF overflowChecks /\ length # capacity
        THEN PushFatal("assertion failed: self.length == self.capacity",
                       NoCall, heap, FALSE)
        ELSE IF MulPanics(sizeT, capacity)
        THEN PushFatal("attempt to multiply with overflow", NoCall, heap, FALSE)
        ELSE IF Overflows(size)
        THEN PushFatal("isize wrapped", NoCall, heap, FALSE)
        ELSE IF Overflows(new_capacity)
        THEN PushFatal("capacity wrapped", NoCall, heap, FALSE)
        ELSE IF MulPanics(sizeT, new_capacity)
        THEN PushFatal("attempt to multiply with overflow", NoCall, heap, FALSE)
        ELSE \E r \in ReallocOutcomes(heap, pointer, size, alignT, new_size_in_bytes) :
                LET f == GrowFields(r.ret, new_capacity)
                IN  IF r.ret = Null
                    THEN /\ outcome' = Outcome("push", "fatal", "Couldn't reallocate.",
                                               0, Uninit, NoSlot)
                         /\ lastCall' = call
                         /\ heap' = r.heap
                         /\ ub' = (ub \/ r.ub)
                         /\ pointer' = f[1]
                         /\ length' = f[2]
                         /\ capacity' = f[3]
                         /\ UNCHANGED <<status, pushed, dropLog>>
                         /\ UNCHANGED typeVars
                    ELSE LET w == WriteSlot(r.heap, r.ret, length, element)
                         IN  PushDone(f[1], f[2], f[3], w.heap, r.ub \/ w.ub,
                                      call, element, length)

Push(element) ==
    /\ status = "live"
    /\ ~ub
    /\ IF IsZeroSized(sizeT)
       THEN PushFatal("No zero sized types", NoCall, heap, FALSE)
       ELSE IF capacity = 0 THEN PushFirst(element)
       ELSE IF HasSpare(length, capacity) THEN PushSpare(element)
       ELSE PushGrow(element)

\* ------------------------------------------------------------ MyVec::get
\* mutant: off by one in the bounds check
InRangeInclusive(index, len) == index <= len

InRange(index, len) == index < len

GetValue(index) ==
    IF ~InRange(index, length) THEN None
    ELSE Some(ReadSlot(heap, pointer, index))

Get(index) ==
    /\ status = "live"
    /\ ~ub
    /\ LET r == GetValue(index)
       IN  /\ outcome' = Outcome("get", IF r.some THEN "Some" ELSE "None", "",
                                 index, r.value,
                                 IF r.some THEN Slot(pointer, index) ELSE NoSlot)
           /\ ub' = (r.some /\ ~InBlock(heap, pointer, index))
    /\ lastCall' = NoCall
    /\ UNCHANGED <<pointer, length, capacity, heap, status, pushed, dropLog>>
    /\ UNCHANGED typeVars

\* ------------------------------------------------------ Drop for MyVec
\* mutant: elements torn down from the last to the first
DropOrderReversed(len) == [k \in 1..len |-> len - k]

\* drop_in_place on the slice [0, length): the indices in the order dropped
DropOrder(len) == [k \in 1..len |-> k - 1]

DropEvent(index, value) == [ev |-> "drop", index |-> index, value |-> value]
DeallocEvent == [ev |-> "dealloc", index |-> 0, value |-> Uninit]

Drop ==
    /\ status = "live"
    /\ ~ub
    /\ LET order == DropOrder(length)
           drops == [k \in 1..Len(order) |->
                        DropEvent(order[k], ReadSlot(heap, pointer, order[k]))]
           wild == \E k \in 1..Len(order) : ~InBlock(heap, pointer, order[k])
           size == MulValue(sizeT, capacity)
           d == DeallocOutcome(heap, pointer, size, alignT)
       IN  IF MulPanics(sizeT, capacity)
           THEN /\ dropLog' = drops
                /\ outcome' = Outcome("drop", "fatal",
                                      "attempt to multiply with overflow",
                                      0, Uninit, NoSlot)
                /\ lastCall' = NoCall
                /\ ub' = wild
                /\ heap' = heap
           ELSE /\ dropLog' = Append(drops, DeallocEvent)
                /\ outcome' = Outcome("drop", "ok", "", 0, Uninit, NoSlot)
                /\ lastCall' = Call("dealloc", pointer, size, alignT, 0)
                /\ ub' = (wild \/ d.ub)
                /\ heap' = d.heap
    /\ status' = "dropped"
    /\ UNCHANGED <<pointer, length, capacity, pushed>>
    /\ UNCHANGED typeVars

\* ------------------------------------------------------- specifications
\* the program under an allocator that refuses requests above isize::MAX
Init ==
    /\ \E t \in Types : sizeT = t.size /\ alignT = t.align
    /\ overflowChecks \in BOOLEAN
    /\ grantsOversize = FALSE
    /\ Fresh

Next ==
    \/ \E v \in Values : length < MaxPush /\ Push(v)
    \/ \E i \in 0..length : Get(i)
    \/ Drop

Spec == Init /\ [][Next]_vars

\* the program under an allocator that serves every request it can place,
\* pushing until the arithmetic of usize gives out
InitOvf ==
    /\ \E t \in Types : sizeT = t.size /\ alignT = t.align
    /\ overflowChecks \in BOOLEAN
    /\ grantsOversize = TRUE
    /\ Fresh

NextOvf ==
    \/ Push(1)
    \/ \E i \in {0, MaxPush} : Get(i)
    \/ Drop

SpecOvf == InitOvf /\ [][NextOvf]_vars


\* ------------------------------------------------------------------ claims
FieldsKept == pointer' = pointer /\ length' = length /\ capacity' = capacity

PushedOk == outcome'.op = "push" /\ outcome'.result = "ok"

Expected(i) == IF i < Len(pushed) THEN Some(pushed[i + 1]) ELSE None

\* C1: after pushing v0..vn-1 onto a fresh container, get(i) is Some(vi) for
\* every i < n and None for every i >= n, whatever allocations and moves the
\* pushes went through; a get that was made returned exactly that.
C1_RoundTrip ==
    status = "live" =>
        /\ \A i \in 0..(MaxPush + 1) : GetValue(i) = Expected(i)
        /\ outcome.op = "get" =>
              /\ outcome.result = (IF outcome.index < Len(pushed) THEN "Some" ELSE "None")
              /\ outcome.value = Expected(outcome.index).value

C1_Witness ==
    /\ status = "live"
    /\ Len(pushed) = MaxPush
    /\ vecCapacity = 4 * FirstCapacity
    /\ outcome.op = "get" /\ outcome.result = "Some" /\ outcome.index = MaxPush - 1

IsGrowthValue(c) == c = 0 \/ \E k \in 0..W : c = FirstCapacity * 2 ^ k

\* C2: capacity is 0 on a fresh container, 4 after the first push, doubles on
\* a push made with length == capacity > 0, and is left alone by every other
\* push, by get and by a push that fails; so it never decreases and is always
\* one of 0, 4, 8, 16, ...
C2_CapacityGrowth ==
    [][ /\ (outcome.op = "new" => vecCapacity = 0)
        /\ IsGrowthValue(vecCapacity) /\ IsGrowthValue(vecCapacity')
        /\ vecCapacity' >= vecCapacity
        /\ vecCapacity' = (IF PushedOk /\ capacity = 0 THEN 4
                   ELSE IF PushedOk /\ length = capacity THEN 2 * capacity
                   ELSE capacity) ]_vars

C2_Witness ==
    /\ outcome.op = "push" /\ outcome.result = "ok"
    /\ vecLen = 2 * FirstCapacity + 1
    /\ vecCapacity = 4 * FirstCapacity

\* C3: vecLen() is the number of successful pushes, whichever case each push
\* took, and only a successful push changes it (by one).
C3_LengthTracking ==
    [][ /\ vecLen = Len(pushed)
        /\ vecLen' = Len(pushed')
        /\ (PushedOk => length' = length + 1)
        /\ (~PushedOk => length' = length) ]_vars

C3_Witness ==
    /\ vecLen = FirstCapacity + 2
    /\ Len(pushed) = FirstCapacity + 2
    /\ outcome.op = "push" /\ outcome.result = "ok" /\ lastCall = NoCall

\* C4: releasing a container of n elements tears down elements 0..n-1, each
\* once, in ascending order, each with the value that was pushed, and the
\* release of the buffer comes after all of them; nothing else is torn down.
C4_DestructionOnce ==
    status = "dropped" =>
        LET n == Len(pushed)
        IN  /\ Len(dropLog) \in {n, n + 1}
            /\ \A k \in 1..n : dropLog[k] = DropEvent(k - 1, pushed[k])
            /\ Len(dropLog) = n + 1 => dropLog[n + 1] = DeallocEvent

C4_Witness ==
    /\ status = "dropped"
    /\ Len(pushed) = FirstCapacity + 1
    /\ Len(dropLog) = FirstCapacity + 2

\* C5: releasing a container whose capacity is 0 makes no release call to the
\* allocator: the placeholder handle never reaches it.
C5_NoReleaseWhenEmpty ==
    (status = "dropped" /\ vecCapacity = 0) => (lastCall.fn # "dealloc" /\ ~ub)

ReallocFailed == outcome'.op = "push" /\ outcome'.msg = "Couldn't reallocate."

\* C6: a growth push whose realloc returns null fails with pointer, length,
\* capacity and the heap as they were, so every element reads as before; a
\* release that follows tears down the elements and frees that buffer once.
C6_ReallocFailureKeepsState ==
    [][ /\ ReallocFailed =>
              /\ outcome'.result = "fatal"
              /\ length = capacity
              /\ FieldsKept /\ heap' = heap /\ ~ub'
              /\ \A i \in 0..MaxPush : GetValue(i)' = Expected(i)
        /\ (outcome.msg = "Couldn't reallocate." /\ outcome'.op = "drop") =>
              /\ IsLive(heap, pointer)
              /\ heap' = [a \in Addrs |-> NoBlock]
              /\ ~ub'
              /\ Len(dropLog') = length + 1
              /\ \A k \in 1..length : dropLog'[k] = DropEvent(k - 1, pushed[k])
              /\ dropLog'[length + 1] = DeallocEvent ]_vars

C6_Witness ==
    /\ outcome.op = "push" /\ outcome.msg = "Couldn't reallocate."
    /\ lastCall.fn = "realloc"
    /\ vecLen = 2 * FirstCapacity /\ vecCapacity = 2 * FirstCapacity

\* C7: a push of a zero-sized value fails before any allocator call and
\* leaves pointer, length, capacity and the heap as they were.
C7_ZeroSizedRejected ==
    [][ (outcome'.op = "push" /\ sizeT = 0) =>
            /\ outcome'.result = "fatal"
            /\ lastCall' = NoCall
            /\ FieldsKept /\ heap' = heap /\ ~ub' ]_vars

C7_Witness ==
    /\ sizeT = 0
    /\ outcome.op = "push" /\ outcome.msg = "No zero sized types"
    /\ lastCall = NoCall

\* C8: a growth push whose doubled capacity or new byte size does not fit
\* usize fails with no allocator call and the state unchanged.
C8_OverflowIsFatal ==
    [][ ( /\ outcome'.op = "push"
          /\ sizeT > 0 /\ capacity > 0 /\ length = capacity
          /\ (Overflows(2 * capacity) \/ Overflows(sizeT * (2 * capacity))) ) =>
            /\ outcome'.result = "fatal"
            /\ lastCall' = NoCall
            /\ FieldsKept /\ heap' = heap /\ ~ub' ]_vars

\* C9: while the container lives, length <= capacity, the stored buffer has
\* capacity slots of which [0, length) are the initialized ones, and the slot
\* the last operation touched is inside the live buffer: the slot a push
\* wrote is length - 1, the slot a get read is below length.
C9_InBounds ==
    status = "live" =>
        /\ ~ub
        /\ 0 <= length /\ length <= capacity
        /\ capacity = 0 => pointer = Dangling
        /\ capacity > 0 =>
              /\ IsLive(heap, pointer)
              /\ Len(heap[pointer].data) = capacity
              /\ \A i \in 0..(capacity - 1) :
                    (ReadSlot(heap, pointer, i) # Uninit) <=> (i < length)
        /\ outcome.slot.used =>
              /\ outcome.slot.at = pointer
              /\ InBlock(heap, pointer, outcome.slot.index)
              /\ outcome.slot.index < length
              /\ outcome.op = "push" => outcome.slot.index = length - 1

\* C10: the layout passed with the buffer to realloc or dealloc is the one
\* the block was allocated with: capacity * size_of(T) bytes, align_of(T).
C10_LayoutConsistency ==
    [][ (outcome'.op \in {"push", "drop"} /\ lastCall'.fn \in {"realloc", "dealloc"}) =>
            /\ lastCall'.ptr = pointer
            /\ lastCall'.size = capacity * sizeT
            /\ lastCall'.align = alignT
            /\ IsLive(heap, pointer) =>
                  /\ heap[pointer].size = lastCall'.size
                  /\ heap[pointer].align = lastCall'.align ]_vars

C10_Witness ==
    /\ lastCall.fn = "realloc"
    /\ outcome.result = "ok"
    /\ sizeT = 6
    /\ vecCapacity = 2 * FirstCapacity

====
